---- MODULE Spec2Model ----
(***************************************************************************)
(* A model of the sec_msg chat node: the per-peer rate limiter             *)
(* (protocol.rs), the Protocols facade over Floodsub and Gossipsub         *)
(* (protocol.rs), the swarm event dispatcher (event.rs), the local command *)
(* handler (ui.rs) and the control loop of main (main.rs).                 *)
(***************************************************************************)
EXTENDS Integers, Sequences, FiniteSets, TLC

(***************************************************************************)
(* Program constants (protocol.rs:22-23).  Time is counted in seconds.     *)
(***************************************************************************)
RATE_LIMIT_INTERVAL == 60
MAX_MESSAGES_PER_INTERVAL == 100

(***************************************************************************)
(* Bounds of the model.                                                    *)
(*   MaxTime   the monotonic clock stops advancing past this reading       *)
(*   MaxCount  check_rate_limit is not called for a peer whose counter     *)
(*             has reached this value (the usize counter is unbounded in   *)
(*             practice)                                                   *)
(***************************************************************************)
MaxTime == 61
MaxCount == 102

Peers == {"p1", "p2"}
TickSteps == {RATE_LIMIT_INTERVAL, RATE_LIMIT_INTERVAL + 1}

NoRecord == [ws |-> -1, count |-> 0]
NoCall == [t0 |-> -1, n |-> 0, ret |-> "none", prev |-> "none"]

Topics == {"", "chat", "news"}
Payloads == {<<"h", "i">>, <<"y", "o">>}

VARIABLES
    clock,        \* reading of the monotonic clock behind Instant::now()
    limits,       \* RateLimiter.limits: peer -> (window start, message count)
    obs,          \* per peer, what a caller of check_rate_limit has observed
    floodSubs,    \* topics the Floodsub behaviour is subscribed to
    meshSubs,     \* topics the Gossipsub behaviour is subscribed to
    partialView,  \* Floodsub's partial view (its target peers)
    pc,           \* where main is: start, listen, loop, exit_ok, exit_err, panic
    last,         \* the operation handled last: its input, result and effects
    burst         \* the calls of check_rate_limit that SpecBurst follows in
                  \* time: how many returned true at each clock reading of the
                  \* last RATE_LIMIT_INTERVAL, and how many in the current window

vars == <<clock, limits, obs, floodSubs, meshSubs, partialView, pc, last, burst>>
router == <<floodSubs, meshSubs, partialView>>

(***************************************************************************)
(* Instant::duration_since: the elapsed time, zero when `earlier` is later *)
(***************************************************************************)
duration_since(now, earlier) == IF now >= earlier THEN now - earlier ELSE 0

(***************************************************************************)
(* HashMap::entry(peer).or_insert((now, 0))                                *)
(***************************************************************************)
\* variant: the entry is created with the count at 1
or_insert_one(lim, peer_id, now) ==
    IF lim[peer_id] = NoRecord THEN [ws |-> now, count |-> 1] ELSE lim[peer_id]

or_insert(lim, peer_id, now) ==
    IF lim[peer_id] = NoRecord THEN [ws |-> now, count |-> 0] ELSE lim[peer_id]

(***************************************************************************)
(* The returned expression: msg_count <= MAX_MESSAGES_PER_INTERVAL         *)
(***************************************************************************)
\* variant: the comparison is strict
within_limit_lt(msg_count) == msg_count < MAX_MESSAGES_PER_INTERVAL

\* variant: one message more than the limit is let through
within_limit_off_by_one(msg_count) == msg_count <= MAX_MESSAGES_PER_INTERVAL + 1

within_limit(msg_count) == msg_count <= MAX_MESSAGES_PER_INTERVAL

(***************************************************************************)
(* The window test: now.duration_since(last_msg_time) > RATE_LIMIT_INTERVAL *)
(***************************************************************************)
window_elapsed(now, last_msg_time) ==
    duration_since(now, last_msg_time) > RATE_LIMIT_INTERVAL

(***************************************************************************)
(* The two branches of check_rate_limit on the entry e: a new window with  *)
(* the count set to 1, or one more message in the current window.          *)
(***************************************************************************)
\* variant: a new window starts with the count at 0
update_entry_from_zero(e, now) ==
    IF window_elapsed(now, e.ws)
    THEN [ws |-> now, count |-> 0]
    ELSE [ws |-> e.ws, count |-> e.count + 1]

\* variant: a message over the limit moves the window start to its own time
update_entry_touch(e, now) ==
    IF window_elapsed(now, e.ws)
    THEN [ws |-> now, count |-> 1]
    ELSE [ws |-> IF e.count + 1 > MAX_MESSAGES_PER_INTERVAL THEN now ELSE e.ws,
          count |-> e.count + 1]

update_entry(e, now) ==
    IF window_elapsed(now, e.ws)
    THEN [ws |-> now, count |-> 1]
    ELSE [ws |-> e.ws, count |-> e.count + 1]

(***************************************************************************)
(* RateLimiter::check_rate_limit(&mut self, peer_id) at clock reading now. *)
(* The result is the updated map and the returned boolean.                 *)
(***************************************************************************)
check_rate_limit(lim, peer_id, now) ==
    LET e == or_insert(lim, peer_id, now)
        r == update_entry(e, now)
    IN  [limits |-> [lim EXCEPT ![peer_id] = r],
         ret    |-> within_limit(r.count)]

(***************************************************************************)
(* What the caller sees of the calls for one peer: t0 is the time of the   *)
(* first call of the current run of calls no later than                    *)
(* RATE_LIMIT_INTERVAL after it, n the number of calls in that run, ret    *)
(* the value the latest call returned and prev the one before it.          *)
(***************************************************************************)
Str(b) == IF b THEN "true" ELSE "false"

Observe(o, now, ret) ==
    IF o = NoCall \/ now - o.t0 > RATE_LIMIT_INTERVAL
    THEN [t0 |-> now, n |-> 1, ret |-> Str(ret), prev |-> o.ret]
    ELSE [t0 |-> o.t0, n |-> o.n + 1, ret |-> Str(ret), prev |-> o.ret]

(***************************************************************************)
(* The record of the operation handled last.  ret is the returned value as *)
(* a path of constructor names, checks the calls of check_rate_limit the   *)
(* handler made, delivered the payloads it logged as received, calls the   *)
(* calls it made into Floodsub, Gossipsub and the swarm, log the lines the *)
(* local command handler logged; dup tells that the operation before it    *)
(* delivered the same payload through the other mechanism.                 *)
(***************************************************************************)
NoOp ==
    [op |-> "none", peer |-> "-", origin |-> "-", topic |-> "-", data |-> <<>>,
     ret |-> <<>>, checks |-> <<>>, delivered |-> <<>>, calls |-> <<>>,
     log |-> <<>>, dup |-> FALSE]

(***************************************************************************)
(* The clock readings at which SpecBurst makes its calls, and the record   *)
(* of the calls that returned true: at[t] of them at reading t, for the    *)
(* readings no more than RATE_LIMIT_INTERVAL back, and win of them since   *)
(* window_start was last set.                                              *)
(***************************************************************************)
BurstTimes == {0, 1, RATE_LIMIT_INTERVAL, RATE_LIMIT_INTERVAL + 1}

NoBurst == [at |-> [t \in BurstTimes |-> 0], win |-> 0]

InSpan(t, now) == t <= now /\ now - t <= RATE_LIMIT_INTERVAL

Prune(at, now) == [t \in BurstTimes |-> IF InSpan(t, now) THEN at[t] ELSE 0]

RECURSIVE SumOver(_, _)
SumOver(f, S) ==
    IF S = {} THEN 0
    ELSE LET x == CHOOSE y \in S : TRUE IN f[x] + SumOver(f, S \ {x})

Init ==
    /\ clock = 0
    /\ limits = [p \in Peers |-> NoRecord]
    /\ obs = [p \in Peers |-> NoCall]
    /\ floodSubs = {}
    /\ meshSubs = {}
    /\ partialView = {}
    /\ pc = "start"
    /\ last = NoOp
    /\ burst = NoBurst

(***************************************************************************)
(* Time passes between two readings of the clock.                          *)
(***************************************************************************)
Tick ==
    /\ \E d \in TickSteps :
          /\ clock + d <= MaxTime
          /\ clock' = clock + d
    /\ UNCHANGED <<burst, limits, obs, router, pc, last>>

(***************************************************************************)
(* A direct call rate_limiter.check_rate_limit(&p), as the unit test makes *)
(***************************************************************************)
CallCheckRateLimit(p) ==
    /\ limits[p].count < MaxCount
    /\ LET res == check_rate_limit(limits, p, clock)
       IN  /\ limits' = res.limits
           /\ obs' = [obs EXCEPT ![p] = Observe(obs[p], clock, res.ret)]
           /\ last' = [NoOp EXCEPT !.op = "check_rate_limit", !.peer = p,
                                   !.ret = <<Str(res.ret)>>]
    /\ UNCHANGED <<burst, clock, router, pc>>

RLNext ==
    \/ Tick
    \/ \E p \in Peers : CallCheckRateLimit(p)

SpecRL == Init /\ [][RLNext]_vars

(***************************************************************************)
(* The calls of check_rate_limit for one peer followed in time: the clock  *)
(* moves on to a later reading of BurstTimes, and each call is recorded in *)
(* burst when it returns true.                                             *)
(***************************************************************************)
BurstTick ==
    /\ \E t \in BurstTimes :
          /\ t > clock
          /\ clock' = t
          /\ burst' = [burst EXCEPT !.at = Prune(burst.at, t)]
    /\ UNCHANGED <<limits, obs, router, pc, last>>

BurstCall(p) ==
    /\ limits[p].count < MaxCount
    /\ LET res == check_rate_limit(limits, p, clock)
           reset == res.limits[p].ws # limits[p].ws
           one == IF res.ret THEN 1 ELSE 0
       IN  /\ limits' = res.limits
           /\ obs' = [obs EXCEPT ![p] = Observe(obs[p], clock, res.ret)]
           /\ last' = [NoOp EXCEPT !.op = "check_rate_limit", !.peer = p,
                                   !.ret = <<Str(res.ret)>>]
           /\ burst' = [at |-> [burst.at EXCEPT ![clock] = @ + one],
                        win |-> (IF reset THEN 0 ELSE burst.win) + one]
    /\ UNCHANGED <<clock, router, pc>>

BurstNext ==
    \/ BurstTick
    \/ BurstCall("p1")

SpecBurst == Init /\ [][BurstNext]_vars

(***************************************************************************)
(* The Protocols facade (protocol.rs).  The two behaviours belong to       *)
(* libp2p; what the facade relies on is modelled here:                     *)
(*  - Floodsub::subscribe returns false when the topic is subscribed       *)
(*    already and otherwise records it and returns true;                   *)
(*  - gossipsub subscribe fails or records the topic;                      *)
(*  - Floodsub::publish returns nothing; gossipsub publish returns Ok or   *)
(*    a PublishError.                                                      *)
(* Every call into a behaviour is written to the trace `calls`.            *)
(***************************************************************************)
MechCall(mech, fn, topic, data, result) ==
    [mech |-> mech, fn |-> fn, topic |-> topic, data |-> data, result |-> result]

Ok == <<"Ok">>

PublishResults == {"Ok", "InsufficientPeers"}

floodsub_subscribe(subs, topic) ==
    [ret |-> topic \notin subs, subs |-> subs \cup {topic}]

gossipsub_subscribe(subs, topic, allowed) ==
    [ret |-> allowed, subs |-> IF allowed THEN subs \cup {topic} ELSE subs]

(***************************************************************************)
(* Protocols::subscribe(topic).  mesh_allowed is what gossipsub will       *)
(* answer if it is asked.                                                  *)
(***************************************************************************)
\* variant: the mesh registration is attempted after a flood failure too
subscribe_mesh_anyway(fsubs, msubs, topic, mesh_allowed) ==
    LET f == floodsub_subscribe(fsubs, topic)
        fcall == MechCall("floodsub", "subscribe", topic, <<>>, Str(f.ret))
        g == gossipsub_subscribe(msubs, topic, mesh_allowed)
        gcall == MechCall("gossipsub", "subscribe", topic, <<>>, Str(g.ret))
    IN  [ret |-> IF ~f.ret THEN <<"Err", "Subscription", "Floodsub">>
                 ELSE IF g.ret THEN Ok ELSE <<"Err", "Subscription", "Gossipsub">>,
         floodSubs |-> f.subs, meshSubs |-> g.subs, calls |-> <<fcall, gcall>>]

\* variant: a mesh failure undoes the flood registration
subscribe_rollback(fsubs, msubs, topic, mesh_allowed) ==
    LET f == floodsub_subscribe(fsubs, topic)
        fcall == MechCall("floodsub", "subscribe", topic, <<>>, Str(f.ret))
    IN  IF ~f.ret
        THEN [ret |-> <<"Err", "Subscription", "Floodsub">>,
              floodSubs |-> f.subs, meshSubs |-> msubs, calls |-> <<fcall>>]
        ELSE LET g == gossipsub_subscribe(msubs, topic, mesh_allowed)
                 gcall == MechCall("gossipsub", "subscribe", topic, <<>>, Str(g.ret))
             IN  [ret |-> IF g.ret THEN Ok ELSE <<"Err", "Subscription", "Gossipsub">>,
                  floodSubs |-> IF g.ret THEN f.subs ELSE fsubs,
                  meshSubs |-> g.subs,
                  calls |-> <<fcall, gcall>>]

\* variant: the result of the mesh registration is dropped
subscribe_ignore_mesh_error(fsubs, msubs, topic, mesh_allowed) ==
    LET f == floodsub_subscribe(fsubs, topic)
        fcall == MechCall("floodsub", "subscribe", topic, <<>>, Str(f.ret))
    IN  IF ~f.ret
        THEN [ret |-> <<"Err", "Subscription", "Floodsub">>,
              floodSubs |-> f.subs, meshSubs |-> msubs, calls |-> <<fcall>>]
        ELSE LET g == gossipsub_subscribe(msubs, topic, mesh_allowed)
                 gcall == MechCall("gossipsub", "subscribe", topic, <<>>, Str(g.ret))
             IN  [ret |-> Ok, floodSubs |-> f.subs, meshSubs |-> g.subs,
                  calls |-> <<fcall, gcall>>]

\* variant: a flood failure is taken as a stale registration and removed
subscribe_drop_on_flood_failure(fsubs, msubs, topic, mesh_allowed) ==
    LET f == floodsub_subscribe(fsubs, topic)
        fcall == MechCall("floodsub", "subscribe", topic, <<>>, Str(f.ret))
    IN  IF ~f.ret
        THEN [ret |-> <<"Err", "Subscription", "Floodsub">>,
              floodSubs |-> f.subs \ {topic}, meshSubs |-> msubs,
              calls |-> <<fcall>>]
        ELSE LET g == gossipsub_subscribe(msubs, topic, mesh_allowed)
                 gcall == MechCall("gossipsub", "subscribe", topic, <<>>, Str(g.ret))
             IN  [ret |-> IF g.ret THEN Ok ELSE <<"Err", "Subscription", "Gossipsub">>,
                  floodSubs |-> f.subs, meshSubs |-> g.subs,
                  calls |-> <<fcall, gcall>>]

subscribe(fsubs, msubs, topic, mesh_allowed) ==
    LET f == floodsub_subscribe(fsubs, topic)
        fcall == MechCall("floodsub", "subscribe", topic, <<>>, Str(f.ret))
    IN  IF ~f.ret
        THEN [ret |-> <<"Err", "Subscription", "Floodsub">>,
              floodSubs |-> f.subs, meshSubs |-> msubs, calls |-> <<fcall>>]
        ELSE LET g == gossipsub_subscribe(msubs, topic, mesh_allowed)
                 gcall == MechCall("gossipsub", "subscribe", topic, <<>>, Str(g.ret))
             IN  [ret |-> IF g.ret THEN Ok ELSE <<"Err", "Subscription", "Gossipsub">>,
                  floodSubs |-> f.subs, meshSubs |-> g.subs,
                  calls |-> <<fcall, gcall>>]

(***************************************************************************)
(* Protocols::publish(topic, data).  mesh_result is what gossipsub will    *)
(* answer if it is asked.                                                  *)
(***************************************************************************)
is_empty(topic) == topic = ""

\* variant: the topic is validated after the Floodsub send
publish_check_after_flood(topic, data, mesh_result) ==
    LET fcall == MechCall("floodsub", "publish", topic, data, "-")
        gcall == MechCall("gossipsub", "publish", topic, data, mesh_result)
    IN  IF is_empty(topic)
        THEN [ret |-> <<"Err", "InvalidInput">>, calls |-> <<fcall>>]
        ELSE [ret |-> IF mesh_result = "Ok" THEN Ok
                      ELSE <<"Err", "Publish", mesh_result>>,
              calls |-> <<fcall, gcall>>]

\* variant: the mesh send comes first and its failure returns at once
publish_mesh_first(topic, data, mesh_result) ==
    IF is_empty(topic)
    THEN [ret |-> <<"Err", "InvalidInput">>, calls |-> <<>>]
    ELSE LET fcall == MechCall("floodsub", "publish", topic, data, "-")
             gcall == MechCall("gossipsub", "publish", topic, data, mesh_result)
         IN  IF mesh_result = "Ok"
             THEN [ret |-> Ok, calls |-> <<gcall, fcall>>]
             ELSE [ret |-> <<"Err", "Publish", mesh_result>>, calls |-> <<gcall>>]

publish(topic, data, mesh_result) ==
    IF is_empty(topic)
    THEN [ret |-> <<"Err", "InvalidInput">>, calls |-> <<>>]
    ELSE LET fcall == MechCall("floodsub", "publish", topic, data, "-")
             gcall == MechCall("gossipsub", "publish", topic, data, mesh_result)
         IN  [ret |-> IF mesh_result = "Ok" THEN Ok
                      ELSE <<"Err", "Publish", mesh_result>>,
              calls |-> <<fcall, gcall>>]

(***************************************************************************)
(* Protocols::unsubscribe(topic): logs and returns Ok(()).                 *)
(***************************************************************************)
\* variant: the topic is taken out of both behaviours
unsubscribe_removes(fsubs, msubs, topic) ==
    [ret |-> Ok, floodSubs |-> fsubs \ {topic}, meshSubs |-> msubs \ {topic},
     calls |-> <<MechCall("floodsub", "unsubscribe", topic, <<>>, "true"),
                 MechCall("gossipsub", "unsubscribe", topic, <<>>, "true")>>]

unsubscribe(fsubs, msubs, topic) ==
    [ret |-> Ok, floodSubs |-> fsubs, meshSubs |-> msubs, calls |-> <<>>]

(***************************************************************************)
(* Direct calls of the facade on a Protocols value, as the unit tests make *)
(***************************************************************************)
CallSubscribe(topic) ==
    /\ \E mesh_allowed \in BOOLEAN :
          LET r == subscribe(floodSubs, meshSubs, topic, mesh_allowed)
          IN  /\ floodSubs' = r.floodSubs
              /\ meshSubs' = r.meshSubs
              /\ last' = [NoOp EXCEPT !.op = "subscribe", !.topic = topic,
                                      !.ret = r.ret, !.calls = r.calls]
    /\ UNCHANGED <<burst, clock, limits, obs, partialView, pc>>

CallPublish(topic, data) ==
    /\ \E mesh_result \in PublishResults :
          LET r == publish(topic, data, mesh_result)
          IN  last' = [NoOp EXCEPT !.op = "publish", !.topic = topic,
                                   !.data = data, !.ret = r.ret, !.calls = r.calls]
    /\ UNCHANGED <<burst, clock, limits, obs, router, pc>>

CallUnsubscribe(topic) ==
    /\ LET r == unsubscribe(floodSubs, meshSubs, topic)
       IN  /\ floodSubs' = r.floodSubs
           /\ meshSubs' = r.meshSubs
           /\ last' = [NoOp EXCEPT !.op = "unsubscribe", !.topic = topic,
                                   !.ret = r.ret, !.calls = r.calls]
    /\ UNCHANGED <<burst, clock, limits, obs, partialView, pc>>

RouterNext ==
    \/ \E t \in Topics : CallSubscribe(t)
    \/ \E t \in Topics, d \in Payloads \cup {<<>>} : CallPublish(t, d)
    \/ \E t \in Topics : CallUnsubscribe(t)

SpecRouter == Init /\ [][RouterNext]_vars

(***************************************************************************)
(* Swarm events (event.rs).  A SwarmEvent<ProtocolEvent> is a record: its  *)
(* variant, and of its fields those the handler reads.  For a Floodsub     *)
(* message `peer` is message.source; for a Gossipsub message `peer` is     *)
(* propagation_source and `origin` is message.source (an Option).          *)
(* num_established is a NonZeroU32.                                        *)
(***************************************************************************)
MaxEstablished == 2

SwarmEvent(variant, peer, origin, data, num_established, cause) ==
    [variant |-> variant, peer |-> peer, origin |-> origin, data |-> data,
     num_established |-> num_established, cause |-> cause]

\* the inbound messages whose rate-limit key is one of `senders` and whose
\* payload is one of `payloads`
MessageEvents(senders, payloads) ==
    {SwarmEvent("Floodsub.Message", p, "-", d, 0, "-") :
        p \in senders, d \in payloads}
    \cup {SwarmEvent("Gossipsub.Message", p, o, d, 0, "-") :
        p \in senders, o \in Peers \cup {"None"}, d \in payloads}

FloodsubOther == {"Floodsub.Subscribed", "Floodsub.Unsubscribed"}
GossipsubOther == {"Gossipsub.Subscribed", "Gossipsub.Unsubscribed",
                   "Gossipsub.GossipsubNotSupported"}

OtherEvents ==
    {SwarmEvent(v, "-", "-", <<>>, 0, "-") :
        v \in FloodsubOther \cup GossipsubOther \cup
              {"NewListenAddr", "IncomingConnection", "IncomingConnectionError",
               "Dialing", "ExpiredListenAddr", "OutgoingConnectionError"}}
    \cup {SwarmEvent("ConnectionEstablished", p, "-", <<>>, n, "-") :
        p \in Peers, n \in 1..MaxEstablished}
    \cup {SwarmEvent("ConnectionClosed", p, "-", <<>>, 0, c) :
        p \in Peers, c \in {"None", "Some"}}

SwarmEvents(senders, payloads) == MessageEvents(senders, payloads) \cup OtherEvents

(***************************************************************************)
(* What a handler hands back: the returned value, the two maps it may      *)
(* write, the rate-limit checks it made and the payloads it logged as      *)
(* received.                                                               *)
(***************************************************************************)
Handled(ret, lim, view, checks, delivered) ==
    [ret |-> ret, limits |-> lim, partialView |-> view,
     checks |-> checks, delivered |-> delivered]

Check(peer, ret) == [peer |-> peer, ret |-> ret]
Delivery(mech, event) ==
    [mech |-> mech, peer |-> event.peer, origin |-> event.origin,
     data |-> event.data]

mechanism(event) ==
    IF event.variant \in {"Floodsub.Message"} \cup FloodsubOther THEN "floodsub"
    ELSE IF event.variant \in {"Gossipsub.Message"} \cup GossipsubOther THEN "gossipsub"
    ELSE "-"

\* the operation handled last delivered the payload of `event` through the
\* other mechanism
SameContentBefore(event) ==
    /\ last.delivered # <<>>
    /\ last.delivered[1].data = event.data
    /\ last.delivered[1].mech # mechanism(event)
    /\ mechanism(event) # "-"

(***************************************************************************)
(* handle_floodsub_event(event, rate_limiter)                              *)
(***************************************************************************)
\* variant: the test of the check is negated
handle_floodsub_event_negated(event, lim, view, now) ==
    IF event.variant = "Floodsub.Message"
    THEN LET c == check_rate_limit(lim, event.peer, now)
         IN  IF ~c.ret
             THEN Handled(Ok, c.limits, view, <<Check(event.peer, c.ret)>>,
                          <<Delivery("floodsub", event)>>)
             ELSE Handled(<<"Err", "FloodsubEvent", "Rate limit exceeded">>,
                          c.limits, view, <<Check(event.peer, c.ret)>>, <<>>)
    ELSE Handled(<<"Err", "FloodsubEvent", "Unexpected Floodsub event">>,
                 lim, view, <<>>, <<>>)

handle_floodsub_event(event, lim, view, now) ==
    IF event.variant = "Floodsub.Message"
    THEN LET c == check_rate_limit(lim, event.peer, now)
         IN  IF c.ret
             THEN Handled(Ok, c.limits, view, <<Check(event.peer, c.ret)>>,
                          <<Delivery("floodsub", event)>>)
             ELSE Handled(<<"Err", "FloodsubEvent", "Rate limit exceeded">>,
                          c.limits, view, <<Check(event.peer, c.ret)>>, <<>>)
    ELSE Handled(<<"Err", "FloodsubEvent", "Unexpected Floodsub event">>,
                 lim, view, <<>>, <<>>)

(***************************************************************************)
(* handle_gossipsub_event(event, rate_limiter)                             *)
(***************************************************************************)
\* variant: the rate limit is keyed by message.source when there is one
handle_gossipsub_event_by_origin(event, lim, view, now) ==
    IF event.variant = "Gossipsub.Message"
    THEN LET key == IF event.origin \in Peers THEN event.origin ELSE event.peer
             c == check_rate_limit(lim, key, now)
         IN  IF c.ret
             THEN Handled(Ok, c.limits, view, <<Check(key, c.ret)>>,
                          <<Delivery("gossipsub", event)>>)
             ELSE Handled(<<"Err", "GossipsubEvent", "Rate limit exceeded">>,
                          c.limits, view, <<Check(key, c.ret)>>, <<>>)
    ELSE Handled(<<"Err", "GossipsubEvent", "Unexpected Gossipsub event">>,
                 lim, view, <<>>, <<>>)

\* variant: a payload just delivered by Floodsub is dropped as a duplicate
handle_gossipsub_event_dedup(event, lim, view, now) ==
    IF event.variant = "Gossipsub.Message"
    THEN IF SameContentBefore(event)
         THEN Handled(Ok, lim, view, <<>>, <<>>)
         ELSE LET c == check_rate_limit(lim, event.peer, now)
              IN  IF c.ret
                  THEN Handled(Ok, c.limits, view, <<Check(event.peer, c.ret)>>,
                               <<Delivery("gossipsub", event)>>)
                  ELSE Handled(<<"Err", "GossipsubEvent", "Rate limit exceeded">>,
                               c.limits, view, <<Check(event.peer, c.ret)>>, <<>>)
    ELSE Handled(<<"Err", "GossipsubEvent", "Unexpected Gossipsub event">>,
                 lim, view, <<>>, <<>>)

\* variant: a sub-event that is no message is passed over in silence
handle_gossipsub_event_ignore_other(event, lim, view, now) ==
    IF event.variant = "Gossipsub.Message"
    THEN LET c == check_rate_limit(lim, event.peer, now)
         IN  IF c.ret
             THEN Handled(Ok, c.limits, view, <<Check(event.peer, c.ret)>>,
                          <<Delivery("gossipsub", event)>>)
             ELSE Handled(<<"Err", "GossipsubEvent", "Rate limit exceeded">>,
                          c.limits, view, <<Check(event.peer, c.ret)>>, <<>>)
    ELSE Handled(Ok, lim, view, <<>>, <<>>)

\* variant: mesh messages are checked against a rate limiter of their own
handle_gossipsub_event_own_limiter(event, lim, view, now) ==
    IF event.variant = "Gossipsub.Message"
    THEN LET c == check_rate_limit([p \in Peers |-> NoRecord], event.peer, now)
         IN  IF c.ret
             THEN Handled(Ok, lim, view, <<Check(event.peer, c.ret)>>,
                          <<Delivery("gossipsub", event)>>)
             ELSE Handled(<<"Err", "GossipsubEvent", "Rate limit exceeded">>,
                          lim, view, <<Check(event.peer, c.ret)>>, <<>>)
    ELSE Handled(<<"Err", "GossipsubEvent", "Unexpected Gossipsub event">>,
                 lim, view, <<>>, <<>>)

handle_gossipsub_event(event, lim, view, now) ==
    IF event.variant = "Gossipsub.Message"
    THEN LET c == check_rate_limit(lim, event.peer, now)
         IN  IF c.ret
             THEN Handled(Ok, c.limits, view, <<Check(event.peer, c.ret)>>,
                          <<Delivery("gossipsub", event)>>)
             ELSE Handled(<<"Err", "GossipsubEvent", "Rate limit exceeded">>,
                          c.limits, view, <<Check(event.peer, c.ret)>>, <<>>)
    ELSE Handled(<<"Err", "GossipsubEvent", "Unexpected Gossipsub event">>,
                 lim, view, <<>>, <<>>)

(***************************************************************************)
(* std::num::NonZero::new(n): an Option, here a sequence of at most one    *)
(* value; Option::unwrap panics on None.                                   *)
(***************************************************************************)
NonZero_new(n) == IF n = 0 THEN <<>> ELSE <<n>>

Panic == <<"panic">>

(***************************************************************************)
(* The ConnectionEstablished arm of handle_event: the comparison           *)
(* num_established == NonZero::new(0).unwrap(), then add_node_to_partial_view *)
(***************************************************************************)
connection_established(event, lim, view) ==
    LET zero == NonZero_new(0)
    IN  IF zero = <<>>
        THEN Handled(Panic, lim, view, <<>>, <<>>)
        ELSE IF event.num_established = zero[1]
        THEN Handled(<<"Err", "Network", "Connection">>, lim, view, <<>>, <<>>)
        ELSE Handled(Ok, lim, view \cup {event.peer}, <<>>, <<>>)

(***************************************************************************)
(* The `?` conversions of handle_event: an EventError becomes an AppError  *)
(***************************************************************************)
into_app_error(h) ==
    IF h.ret = Ok THEN h ELSE [h EXCEPT !.ret = <<"Err", "Event">> \o Tail(h.ret)]

(***************************************************************************)
(* handle_event(event, swarm, rate_limiter)                                *)
(***************************************************************************)
\* variant: a closed connection takes the peer out of the partial view
handle_event_closed_removes(event, lim, view, now) ==
    CASE event.variant \in {"Floodsub.Message"} \cup FloodsubOther ->
            into_app_error(handle_floodsub_event(event, lim, view, now))
      [] event.variant \in {"Gossipsub.Message"} \cup GossipsubOther ->
            into_app_error(handle_gossipsub_event(event, lim, view, now))
      [] event.variant = "NewListenAddr" ->
            Handled(Ok, lim, view, <<>>, <<>>)
      [] event.variant = "ConnectionEstablished" ->
            connection_established(event, lim, view)
      [] event.variant = "ConnectionClosed" ->
            IF event.cause = "Some"
            THEN Handled(<<"Err", "Network", "ConnectionClose">>, lim,
                         view \ {event.peer}, <<>>, <<>>)
            ELSE Handled(Ok, lim, view \ {event.peer}, <<>>, <<>>)
      [] event.variant = "IncomingConnection" ->
            Handled(Ok, lim, view, <<>>, <<>>)
      [] event.variant = "IncomingConnectionError" ->
            Handled(<<"Err", "Network", "IncomingConnection">>, lim, view, <<>>, <<>>)
      [] event.variant = "Dialing" ->
            Handled(Ok, lim, view, <<>>, <<>>)
      [] OTHER ->
            Handled(<<"Err", "Event", "UnhandledSwarm">>, lim, view, <<>>, <<>>)

handle_event(event, lim, view, now) ==
    CASE event.variant \in {"Floodsub.Message"} \cup FloodsubOther ->
            into_app_error(handle_floodsub_event(event, lim, view, now))
      [] event.variant \in {"Gossipsub.Message"} \cup GossipsubOther ->
            into_app_error(handle_gossipsub_event(event, lim, view, now))
      [] event.variant = "NewListenAddr" ->
            Handled(Ok, lim, view, <<>>, <<>>)
      [] event.variant = "ConnectionEstablished" ->
            connection_established(event, lim, view)
      [] event.variant = "ConnectionClosed" ->
            IF event.cause = "Some"
            THEN Handled(<<"Err", "Network", "ConnectionClose">>, lim, view, <<>>, <<>>)
            ELSE Handled(Ok, lim, view, <<>>, <<>>)
      [] event.variant = "IncomingConnection" ->
            Handled(Ok, lim, view, <<>>, <<>>)
      [] event.variant = "IncomingConnectionError" ->
            Handled(<<"Err", "Network", "IncomingConnection">>, lim, view, <<>>, <<>>)
      [] event.variant = "Dialing" ->
            Handled(Ok, lim, view, <<>>, <<>>)
      [] OTHER ->
            Handled(<<"Err", "Event", "UnhandledSwarm">>, lim, view, <<>>, <<>>)

(***************************************************************************)
(* Local commands (ui.rs).  A line is a sequence of characters.            *)
(***************************************************************************)
CONNECT == <<"/", "c", "o", "n", "n", "e", "c", "t">>

Lines ==
    { <<>>,
      <<"h", "i">>,
      CONNECT,
      CONNECT \o <<" ", "a">>,
      CONNECT \o <<" ", " ", "a">>,
      CONNECT \o <<" ", "x">>,
      CONNECT \o <<" ", "a", " ", "b">>,
      CONNECT \o <<"x", " ", "a">>,
      <<" ">> \o CONNECT \o <<" ", "a">> }

\* the tokens <token>.parse::<Multiaddr>() accepts
ValidAddrs == { <<"a">>, <<"b">> }

starts_with(line, prefix) ==
    /\ Len(line) >= Len(prefix)
    /\ SubSeq(line, 1, Len(prefix)) = prefix

RECURSIVE split_from(_, _, _)
split_from(line, cur, acc) ==
    IF line = <<>>
    THEN IF cur = <<>> THEN acc ELSE Append(acc, cur)
    ELSE IF Head(line) = " "
    THEN split_from(Tail(line), <<>>, IF cur = <<>> THEN acc ELSE Append(acc, cur))
    ELSE split_from(Tail(line), Append(cur, Head(line)), acc)

split_whitespace(line) == split_from(line, <<>>, <<>>)

parse_multiaddr(token) == token \in ValidAddrs

(***************************************************************************)
(* handle_user_input(line, swarm, topic).  dial_ok and mesh_result are     *)
(* what swarm.dial and gossipsub publish will answer if they are asked.    *)
(* The function returns the unit value: its effects are its calls and log  *)
(* lines.                                                                  *)
(***************************************************************************)
Unit == <<"()">>

\* variant: the results of parse, dial and publish are unwrapped
handle_user_input_unwrap(line, topic, dial_ok, mesh_result) ==
    IF starts_with(line, CONNECT)
    THEN LET parts == split_whitespace(line)
         IN  IF Len(parts) = 2
             THEN IF parse_multiaddr(parts[2])
                  THEN [ret |-> IF dial_ok THEN Unit ELSE Panic,
                        calls |-> <<MechCall("swarm", "dial", "-", parts[2],
                                             Str(dial_ok))>>,
                        log |-> IF dial_ok THEN <<"Dialing">>
                                ELSE <<"Dialing", "Failed to dial address">>]
                  ELSE [ret |-> Panic, calls |-> <<>>,
                        log |-> <<"Invalid multiaddress">>]
             ELSE [ret |-> Unit, calls |-> <<>>,
                   log |-> <<"Usage: /connect <multiaddress>">>]
    ELSE LET r == publish(topic, line, mesh_result)
         IN  [ret |-> IF r.ret = Ok THEN Unit ELSE Panic,
              calls |-> r.calls,
              log |-> IF r.ret = Ok THEN <<"Publishing message">>
                      ELSE <<"Publishing message", "Failed to publish message">>]

handle_user_input(line, topic, dial_ok, mesh_result) ==
    IF starts_with(line, CONNECT)
    THEN LET parts == split_whitespace(line)
         IN  IF Len(parts) = 2
             THEN IF parse_multiaddr(parts[2])
                  THEN [ret |-> Unit,
                        calls |-> <<MechCall("swarm", "dial", "-", parts[2],
                                             Str(dial_ok))>>,
                        log |-> IF dial_ok THEN <<"Dialing">>
                                ELSE <<"Dialing", "Failed to dial address">>]
                  ELSE [ret |-> Unit, calls |-> <<>>,
                        log |-> <<"Invalid multiaddress">>]
             ELSE [ret |-> Unit, calls |-> <<>>,
                   log |-> <<"Usage: /connect <multiaddress>">>]
    ELSE LET r == publish(topic, line, mesh_result)
         IN  [ret |-> Unit,
              calls |-> r.calls,
              log |-> IF r.ret = Ok THEN <<"Publishing message">>
                      ELSE <<"Publishing message", "Failed to publish message">>]

(***************************************************************************)
(* main (main.rs).  The topic is fixed; create_swarm builds the behaviour, *)
(* subscribes it and builds the swarm; listen_on binds; then the loop      *)
(* selects between the next line of stdin and the next swarm event and     *)
(* handles it to completion.  The rate limiter handed to handle_event is   *)
(* the one value owned by the loop.                                        *)
(***************************************************************************)
TOPIC == "chat"

\* the peers whose messages reach the control loop in Spec
Senders == {"p1"}

RECURSIVE ObserveAll(_, _, _)
ObserveAll(o, checks, now) ==
    IF checks = <<>> THEN o
    ELSE ObserveAll([o EXCEPT ![Head(checks).peer] =
                        Observe(o[Head(checks).peer], now, Head(checks).ret)],
                    Tail(checks), now)

\* create_swarm(local_key, local_peer_id, topic) (network.rs)
MainCreateSwarm ==
    /\ pc = "start"
    /\ \E new_ok \in BOOLEAN, mesh_allowed \in BOOLEAN, builder_ok \in BOOLEAN :
          LET r == subscribe(floodSubs, meshSubs, TOPIC, mesh_allowed)
              op == [NoOp EXCEPT !.op = "create_swarm", !.topic = TOPIC]
          IN  IF ~new_ok
              THEN /\ UNCHANGED <<floodSubs, meshSubs>>
                   /\ pc' = "exit_err"
                   /\ last' = [op EXCEPT !.ret = <<"Err", "Network", "ProtocolCreation">>]
              ELSE /\ floodSubs' = r.floodSubs
                   /\ meshSubs' = r.meshSubs
                   /\ IF r.ret # Ok
                      THEN /\ pc' = "exit_err"
                           /\ last' = [op EXCEPT !.ret = <<"Err", "Network", "TopicSubscription">>,
                                                 !.calls = r.calls]
                      ELSE IF ~builder_ok
                      THEN /\ pc' = "exit_err"
                           /\ last' = [op EXCEPT !.ret = <<"Err", "Network", "SwarmBuilder">>,
                                                 !.calls = r.calls]
                      ELSE /\ pc' = "listen"
                           /\ last' = [op EXCEPT !.ret = Ok, !.calls = r.calls]
    /\ UNCHANGED <<burst, clock, limits, obs, partialView>>

\* listen_on(&mut swarm) (network.rs)
MainListenOn ==
    /\ pc = "listen"
    /\ \E listen_ok \in BOOLEAN :
          /\ pc' = IF listen_ok THEN "loop" ELSE "exit_err"
          /\ last' = [NoOp EXCEPT !.op = "listen_on",
                         !.ret = IF listen_ok THEN Ok ELSE <<"Err", "Network", "Listen">>]
    /\ UNCHANGED <<burst, clock, limits, obs, router>>

\* The answers of the swarm and of gossipsub that a line can come to ask for:
\* a line that is no /connect line never dials, a /connect line never publishes.
DialAnswers(line) == IF starts_with(line, CONNECT) THEN BOOLEAN ELSE {TRUE}
PublishAnswers(line) == IF starts_with(line, CONNECT) THEN {"Ok"} ELSE PublishResults

\* what main does when handle_user_input(..).await is over: the next turn of
\* the loop, unless the call unwound
after_line(ret) == IF ret = Panic THEN "panic" ELSE "loop"

\* the select! branch line = stdin.next_line(), Ok(Some(line))
LoopStdinLine ==
    /\ pc = "loop"
    /\ \E line \in Lines :
          \E dial_ok \in DialAnswers(line), mesh_result \in PublishAnswers(line) :
             LET r == handle_user_input(line, TOPIC, dial_ok, mesh_result)
             IN  /\ last' = [NoOp EXCEPT !.op = "stdin.line", !.data = line,
                                         !.ret = r.ret, !.calls = r.calls,
                                         !.log = r.log]
                 /\ pc' = after_line(r.ret)
    /\ UNCHANGED <<burst, clock, limits, obs, router>>

\* Ok(None) and Err(e) of stdin.next_line(): break, and main returns Ok(())
LoopStdinClosed ==
    /\ pc = "loop"
    /\ \E how \in {"stdin.eof", "stdin.err"} :
          last' = [NoOp EXCEPT !.op = how, !.ret = Ok]
    /\ pc' = "exit_ok"
    /\ UNCHANGED <<burst, clock, limits, obs, router>>

\* a call event::handle_event(event, &mut swarm, &mut rate_limiter)
Dispatch(event) ==
    /\ event.peer \in Peers => limits[event.peer].count < MaxCount
    /\ LET h == handle_event(event, limits, partialView, clock)
       IN  /\ limits' = h.limits
           /\ partialView' = h.partialView
           /\ obs' = ObserveAll(obs, h.checks, clock)
           /\ last' = [NoOp EXCEPT !.op = event.variant, !.peer = event.peer,
                                   !.origin = event.origin, !.data = event.data,
                                   !.ret = h.ret, !.checks = h.checks,
                                   !.delivered = h.delivered,
                                   !.dup = SameContentBefore(event)]
    /\ UNCHANGED <<burst, clock, floodSubs, meshSubs>>

\* the message event that the record of an operation describes
EventOf(op) == SwarmEvent(op.op, op.peer, op.origin, op.data, 0, "-")

\* this step is a call of handle_event on an inbound message: `event`
Dispatched(event) ==
    /\ event \in MessageEvents(Peers, Payloads)
    /\ Dispatch(event)

\* what main does with the value of handle_event(..).await?
after_event(ret) ==
    IF ret = Ok THEN "loop" ELSE IF ret = Panic THEN "panic" ELSE "exit_err"

\* the select! branch event = swarm.next(), Some(event)
LoopSwarmEvent ==
    /\ pc = "loop"
    /\ \E event \in SwarmEvents(Senders, Payloads) : Dispatch(event)
    /\ pc' = after_event(last'.ret)

\* the select! branch event = swarm.next(), None: logged, the loop goes on
LoopSwarmClosed ==
    /\ pc = "loop"
    /\ last' = [NoOp EXCEPT !.op = "swarm.closed", !.ret = Unit]
    /\ UNCHANGED <<burst, clock, limits, obs, router, pc>>

Next ==
    \/ Tick
    \/ MainCreateSwarm
    \/ MainListenOn
    \/ LoopStdinLine
    \/ LoopStdinClosed
    \/ LoopSwarmEvent
    \/ LoopSwarmClosed

Spec == Init /\ [][Next]_vars

(***************************************************************************)
(* The dispatcher on its own: handle_event called on inbound messages of   *)
(* either peer, with one rate limiter, all within one rate-limit window.   *)
(***************************************************************************)
DispatchNext ==
    \E event \in MessageEvents(Peers, {<<"h", "i">>}) :
        Dispatch(event) /\ UNCHANGED pc

SpecDispatch == Init /\ [][DispatchNext]_vars

(***************************************************************************)
(* The control loop on its own, taken up on a swarm whose Floodsub holds   *)
(* any partial view: handle_event and handle_user_input are public         *)
(* functions of the swarm they are handed.  Both behaviours are subscribed *)
(* to the topic, as they are whenever the loop runs.                       *)
(***************************************************************************)
InitLoop ==
    /\ clock = 0
    /\ limits = [p \in Peers |-> NoRecord]
    /\ obs = [p \in Peers |-> NoCall]
    /\ floodSubs = {TOPIC}
    /\ meshSubs = {TOPIC}
    /\ partialView \in SUBSET Peers
    /\ pc = "loop"
    /\ last = NoOp
    /\ burst = NoBurst

LoopNext ==
    \/ LoopStdinLine
    \/ LoopStdinClosed
    \/ LoopSwarmEvent
    \/ LoopSwarmClosed

SpecLoop == InitLoop /\ [][LoopNext]_vars

(***************************************************************************)
(* C1  Rate-limit boundary.  Of the calls of check_rate_limit for one peer *)
(* made no later than RATE_LIMIT_INTERVAL after the first of them, the     *)
(* first MAX_MESSAGES_PER_INTERVAL each return true and the next one       *)
(* returns false.                                                          *)
(***************************************************************************)
C1_RateLimitBoundary ==
    \A p \in Peers :
        obs[p] # NoCall =>
            /\ obs[p].n <= MAX_MESSAGES_PER_INTERVAL => obs[p].ret = "true"
            /\ obs[p].n = MAX_MESSAGES_PER_INTERVAL + 1 => obs[p].ret = "false"

\* the 101st call of a window, made exactly RATE_LIMIT_INTERVAL after its
\* start, has returned false
C1_Witness ==
    \E p \in Peers :
        /\ obs[p].n = MAX_MESSAGES_PER_INTERVAL + 1
        /\ obs[p].ret = "false"
        /\ obs[p].prev = "true"
        /\ clock - obs[p].t0 = RATE_LIMIT_INTERVAL

(***************************************************************************)
(* C2  Sticky rejection.  When the latest call for a peer returned false,  *)
(* the next call for it made no later than RATE_LIMIT_INTERVAL after its   *)
(* window_start returns false as well and leaves window_start as it was    *)
(* (so every later call of the same window does).                          *)
(***************************************************************************)
C2_StickyRejection ==
    [][\A p \in Peers :
          ( /\ obs[p].ret = "false"
            /\ CallCheckRateLimit(p)
            /\ duration_since(clock, limits[p].ws) <= RATE_LIMIT_INTERVAL )
          => ( /\ obs'[p].ret = "false"
               /\ limits'[p].ws = limits[p].ws )]_vars

\* a second rejection in a row, the later one exactly RATE_LIMIT_INTERVAL
\* after the window start
C2_Witness ==
    \E p \in Peers :
        /\ obs[p].prev = "false"
        /\ obs[p].ret = "false"
        /\ limits[p].count = MAX_MESSAGES_PER_INTERVAL + 2
        /\ clock - limits[p].ws = RATE_LIMIT_INTERVAL

(***************************************************************************)
(* C3  Window reset.  When the latest call for a peer returned false, the  *)
(* next call for it made more than RATE_LIMIT_INTERVAL after its           *)
(* window_start returns true and leaves the record (time of the call, 1).  *)
(***************************************************************************)
C3_WindowReset ==
    [][\A p \in Peers :
          ( /\ obs[p].ret = "false"
            /\ CallCheckRateLimit(p)
            /\ duration_since(clock, limits[p].ws) > RATE_LIMIT_INTERVAL )
          => ( /\ obs'[p].ret = "true"
               /\ limits'[p] = [ws |-> clock, count |-> 1] )]_vars

\* a rejected peer has been accepted again in a new window
C3_Witness ==
    \E p \in Peers :
        /\ obs[p].prev = "false"
        /\ obs[p].ret = "true"
        /\ limits[p] = [ws |-> clock, count |-> 1]
        /\ clock > RATE_LIMIT_INTERVAL

(***************************************************************************)
(* C4  Unseen peer.  The first call for a peer without a record returns    *)
(* true and leaves the record (time of the call, 1) for it, whatever the   *)
(* records of the other peers, which the call leaves alone.                *)
(***************************************************************************)
C4_UnseenPeer ==
    [][\A p \in Peers :
          ( /\ limits[p] = NoRecord
            /\ CallCheckRateLimit(p) )
          => ( /\ obs'[p].ret = "true"
               /\ limits'[p] = [ws |-> clock, count |-> 1]
               /\ \A q \in Peers \ {p} : limits'[q] = limits[q] )]_vars

\* a peer seen for the first time, at a later time, while another peer is
\* being rejected
C4_Witness ==
    \E p \in Peers, q \in Peers :
        /\ p # q
        /\ limits[q].count > MAX_MESSAGES_PER_INTERVAL
        /\ obs[p] = [t0 |-> clock, n |-> 1, ret |-> "true", prev |-> "none"]
        /\ limits[p] = [ws |-> clock, count |-> 1]
        /\ clock > 0

(***************************************************************************)
(* C5  Connection bookkeeping.  Handling a connection-established event    *)
(* with established-count zero returns a NetworkError of the Connection    *)
(* kind and leaves the partial view unchanged; with a positive count it    *)
(* returns success and the peer is in the partial view afterwards.         *)
(***************************************************************************)
C5_ConnectionBookkeeping ==
    [][\A event \in OtherEvents :
          ( /\ event.variant = "ConnectionEstablished"
            /\ Dispatch(event) )
          => IF event.num_established = 0
             THEN /\ last'.ret = <<"Err", "Network", "Connection">>
                  /\ partialView' = partialView
             ELSE /\ last'.ret = Ok
                  /\ event.peer \in partialView']_vars

(***************************************************************************)
(* C6  A rate-limit rejection never terminates the control loop: after an  *)
(* inbound flood or mesh message has been rejected by the rate limiter,    *)
(* the message is dropped and the loop is still running.                   *)
(***************************************************************************)
RateLimitRejected ==
    /\ last.op \in {"Floodsub.Message", "Gossipsub.Message"}
    /\ last.checks # <<>>
    /\ ~last.checks[1].ret

C6_RejectionKeepsLoopRunning ==
    RateLimitRejected => (last.delivered = <<>> /\ pc = "loop")

(***************************************************************************)
(* C7  Inbound gating.  Handling an inbound flood or mesh message consults *)
(* the rate limiter exactly once, for the peer the message came from; the  *)
(* payload is logged as received if and only if that call returned true,   *)
(* and when it returned false the handler returns an error.                *)
(***************************************************************************)
C7_InboundGating ==
    [][LET event == EventOf(last')
       IN  Dispatched(event) =>
             /\ Len(last'.checks) = 1
             /\ last'.checks[1].peer = event.peer
             /\ limits' = check_rate_limit(limits, event.peer, clock).limits
             /\ IF last'.checks[1].ret
                THEN /\ last'.delivered = <<Delivery(mechanism(event), event)>>
                     /\ last'.ret = Ok
                ELSE /\ last'.delivered = <<>>
                     /\ last'.ret[1] = "Err"]_vars

\* a mesh message has been rejected and dropped while the other peer's
\* latest message was accepted
C7_Witness ==
    \E p \in Peers, q \in Peers :
        /\ p # q
        /\ last.op = "Gossipsub.Message"
        /\ last.checks = <<Check(p, FALSE)>>
        /\ last.delivered = <<>>
        /\ last.ret = <<"Err", "Event", "GossipsubEvent", "Rate limit exceeded">>
        /\ obs[q].ret = "true"

(***************************************************************************)
(* C8  Mesh messages are rate-limited by propagation source.  Handling a   *)
(* mesh message delivered by R whose originator is another peer O adds one *)
(* message to R's record, accepts it exactly when R's count is within the  *)
(* limit, and leaves the record of O and of every other peer unchanged.    *)
(***************************************************************************)
C8_KeyedByPropagationSource ==
    [][LET event == EventOf(last')
       IN  ( /\ event.variant = "Gossipsub.Message"
             /\ event.origin \in Peers \ {event.peer}
             /\ Dispatched(event) )
          => /\ \/ limits'[event.peer] = [ws |-> limits[event.peer].ws,
                                          count |-> limits[event.peer].count + 1]
                \/ limits'[event.peer] = [ws |-> clock, count |-> 1]
             /\ (last'.ret = Ok) <=>
                   (limits'[event.peer].count <= MAX_MESSAGES_PER_INTERVAL)
             /\ (last'.delivered # <<>>) <=> (last'.ret = Ok)
             /\ \A q \in Peers \ {event.peer} : limits'[q] = limits[q]]_vars

\* a mesh message relayed by R has been accepted although its originator O
\* is over the limit itself
C8_Witness ==
    \E r \in Peers, o \in Peers :
        /\ r # o
        /\ last.op = "Gossipsub.Message"
        /\ last.peer = r
        /\ last.origin = o
        /\ last.ret = Ok
        /\ last.delivered # <<>>
        /\ limits[o].count > MAX_MESSAGES_PER_INTERVAL
        /\ limits[r].count <= MAX_MESSAGES_PER_INTERVAL

(***************************************************************************)
(* C9  Dual delivery without dedup.  A flood or mesh message whose payload *)
(* was delivered just before through the other mechanism is handled like   *)
(* any other: the rate limiter is asked for its sender, and the payload is *)
(* delivered when the limiter accepts it.                                  *)
(***************************************************************************)
C9_DualDelivery ==
    [][LET event == EventOf(last')
       IN  ( /\ SameContentBefore(event)
             /\ Dispatched(event) )
          => LET c == check_rate_limit(limits, event.peer, clock)
             IN  /\ last'.checks = <<Check(event.peer, c.ret)>>
                 /\ limits' = c.limits
                 /\ c.ret => last'.delivered = <<Delivery(mechanism(event), event)>>]_vars

\* a mesh message has been delivered right after the flood message with the
\* same payload
C9_Witness ==
    /\ last.op = "Gossipsub.Message"
    /\ last.dup
    /\ last.delivered # <<>>
    /\ last.delivered[1].mech = "gossipsub"
    /\ pc = "loop"

(***************************************************************************)
(* C10  Empty-topic publish.  Whatever the payload and the state of the    *)
(* two behaviours, publish with the empty topic returns the invalid-input  *)
(* error and calls neither Floodsub's nor Gossipsub's publish.             *)
(***************************************************************************)
C10_EmptyTopicPublish ==
    (last.op = "publish" /\ last.topic = "")
        => (last.ret = <<"Err", "InvalidInput">> /\ last.calls = <<>>)

\* a non-empty payload has been published to the empty topic while both
\* behaviours were subscribed to it
C10_Witness ==
    /\ last.op = "publish"
    /\ last.topic = ""
    /\ last.data # <<>>
    /\ last.ret = <<"Err", "InvalidInput">>
    /\ "" \in floodSubs
    /\ "" \in meshSubs

(***************************************************************************)
(* C11  Subscribe, flood failure.  When Floodsub reports failure for       *)
(* subscribe(topic), subscribe returns a subscription error, Gossipsub's   *)
(* subscribe is not called in that call and Gossipsub's subscriptions are  *)
(* as they were.                                                           *)
(***************************************************************************)
C11_SubscribeFloodFailure ==
    [][\A t \in Topics :
          ( /\ CallSubscribe(t)
            /\ last'.calls[1] = MechCall("floodsub", "subscribe", t, <<>>, "false") )
          => ( /\ SubSeq(last'.ret, 1, 2) = <<"Err", "Subscription">>
               /\ \A i \in 1..Len(last'.calls) : last'.calls[i].mech # "gossipsub"
               /\ meshSubs' = meshSubs )]_vars

\* Floodsub has refused a topic that Gossipsub is not subscribed to, and
\* Gossipsub still is not
C11_Witness ==
    /\ last.op = "subscribe"
    /\ last.calls = <<MechCall("floodsub", "subscribe", last.topic, <<>>, "false")>>
    /\ last.ret = <<"Err", "Subscription", "Floodsub">>
    /\ last.topic \in floodSubs
    /\ last.topic \notin meshSubs

(***************************************************************************)
(* C12  Subscribe, mesh failure with no rollback.  When Floodsub accepts   *)
(* the topic and Gossipsub refuses it, subscribe returns a subscription    *)
(* error and Floodsub is subscribed to the topic afterwards, and stays so. *)
(***************************************************************************)
C12_SubscribeMeshFailure ==
    [][/\ \A t \in Topics :
             ( /\ CallSubscribe(t)
               /\ last'.calls =
                     <<MechCall("floodsub", "subscribe", t, <<>>, "true"),
                       MechCall("gossipsub", "subscribe", t, <<>>, "false")>> )
             => ( /\ SubSeq(last'.ret, 1, 2) = <<"Err", "Subscription">>
                  /\ t \notin floodSubs
                  /\ t \in floodSubs'
                  /\ meshSubs' = meshSubs )
       /\ floodSubs \subseteq floodSubs']_vars

\* Gossipsub has refused a topic that Floodsub had just accepted, and
\* Floodsub is subscribed to it while Gossipsub is not
C12_Witness ==
    /\ last.op = "subscribe"
    /\ Len(last.calls) = 2
    /\ last.calls[2] = MechCall("gossipsub", "subscribe", last.topic, <<>>, "false")
    /\ last.ret = <<"Err", "Subscription", "Gossipsub">>
    /\ last.topic \in floodSubs
    /\ last.topic \notin meshSubs

(***************************************************************************)
(* C13  Subscribe success means both.  Whatever the subscriptions of the   *)
(* two behaviours and the topic, a subscribe that returns Ok leaves both   *)
(* behaviours subscribed to the topic; and main is past create_swarm (it   *)
(* listens, runs the control loop or has left it) only when the subscribe  *)
(* of the configured topic returned Ok, so that both are subscribed to it. *)
(***************************************************************************)
C13_SubscribeSuccessMeansBoth ==
    /\ \A fsubs \in SUBSET Topics, msubs \in SUBSET Topics,
          t \in Topics, mesh_allowed \in BOOLEAN :
          LET r == subscribe(fsubs, msubs, t, mesh_allowed)
          IN  r.ret = Ok => (t \in r.floodSubs /\ t \in r.meshSubs)
    /\ (last.op = "create_swarm" /\ last.ret = Ok) =>
          /\ last.calls = <<MechCall("floodsub", "subscribe", TOPIC, <<>>, "true"),
                            MechCall("gossipsub", "subscribe", TOPIC, <<>>, "true")>>
          /\ pc = "listen"
    /\ pc \notin {"start", "exit_err"} =>
          (TOPIC \in floodSubs /\ TOPIC \in meshSubs)
    /\ (pc = "exit_err" /\ last.op \notin {"create_swarm"}) =>
          (TOPIC \in floodSubs /\ TOPIC \in meshSubs)

\* the control loop has just been entered, with both behaviours subscribed
\* to the configured topic
C13_Witness ==
    /\ pc = "loop"
    /\ last.op = "listen_on"
    /\ TOPIC \in floodSubs
    /\ TOPIC \in meshSubs

(***************************************************************************)
(* C14  Subscribing twice.  Once both behaviours are subscribed to a topic *)
(* (a subscribe of it has returned Ok), another subscribe of the topic     *)
(* leaves the subscriptions of both behaviours exactly as they were.       *)
(***************************************************************************)
C14_SubscribeTwice ==
    [][\A t \in Topics :
          ( /\ t \in floodSubs
            /\ t \in meshSubs
            /\ CallSubscribe(t) )
          => ( /\ floodSubs' = floodSubs
               /\ meshSubs' = meshSubs )]_vars

\* a topic has been subscribed a second time, while another topic is
\* subscribed too, and both behaviours hold both topics
C14_Witness ==
    /\ last.op = "subscribe"
    /\ last.calls = <<MechCall("floodsub", "subscribe", last.topic, <<>>, "false")>>
    /\ last.topic \in floodSubs
    /\ last.topic \in meshSubs
    /\ Cardinality(floodSubs) >= 2
    /\ meshSubs = floodSubs

(***************************************************************************)
(* C15  Publish is ordered and not atomic.  For a non-empty topic publish  *)
(* hands the payload to Floodsub first and to Gossipsub second; when the   *)
(* Gossipsub send fails publish returns that error as a publish error,     *)
(* and the Floodsub send of the call has been made all the same.           *)
(***************************************************************************)
C15_PublishOrdered ==
    (last.op = "publish" /\ last.topic # "") =>
        /\ Len(last.calls) = 2
        /\ last.calls[1] =
              MechCall("floodsub", "publish", last.topic, last.data, "-")
        /\ last.calls[2] =
              MechCall("gossipsub", "publish", last.topic, last.data,
                       last.calls[2].result)
        /\ last.calls[2].result \in PublishResults
        /\ IF last.calls[2].result = "Ok"
           THEN last.ret = Ok
           ELSE last.ret = <<"Err", "Publish", last.calls[2].result>>

\* a publish has failed with insufficient peers after its Floodsub send
C15_Witness ==
    /\ last.op = "publish"
    /\ last.topic = "chat"
    /\ last.data # <<>>
    /\ last.ret = <<"Err", "Publish", "InsufficientPeers">>
    /\ last.calls[1].mech = "floodsub"

(***************************************************************************)
(* C16  Local command grammar.  A line is treated as a dial request if and *)
(* only if it begins with "/connect " followed by exactly one token; every *)
(* other non-empty line, the other lines that start with "/connect"        *)
(* included, is published verbatim on the configured topic.                *)
(***************************************************************************)
IsDialLine(line) ==
    /\ starts_with(line, CONNECT \o <<" ">>)
    /\ Len(split_whitespace(SubSeq(line, Len(CONNECT) + 2, Len(line)))) = 1

TreatedAsDial(op) ==
    /\ op.log # <<>>
    /\ op.log[1] \in {"Dialing", "Invalid multiaddress"}

PublishedVerbatim(op) ==
    /\ op.calls # <<>>
    /\ op.calls[1] = MechCall("floodsub", "publish", TOPIC, op.data, "-")

C16_CommandGrammar ==
    last.op = "stdin.line" =>
        /\ TreatedAsDial(last) <=> IsDialLine(last.data)
        /\ (~IsDialLine(last.data) /\ last.data # <<>>) => PublishedVerbatim(last)

(***************************************************************************)
(* C17  Local command failures are non-fatal.  Whatever a line read from   *)
(* stdin comes to (a publish that fails, a /connect with the wrong number  *)
(* of arguments, an address that does not parse, a dial that fails),       *)
(* handling it leaves the control loop running and the rate-limit records  *)
(* and the partial view as they were.  HandledLine: this step is the loop  *)
(* handling a line (no other step leaves a record of that kind).           *)
(***************************************************************************)
HandledLine ==
    /\ pc = "loop"
    /\ clock' = clock
    /\ last'.op = "stdin.line"

C17_CommandFailuresNonFatal ==
    [][HandledLine =>
          /\ pc' = "loop"
          /\ last'.ret = Unit
          /\ limits' = limits
          /\ partialView' = partialView]_vars

\* a dial has failed while rate-limit records exist, and the loop runs on
C17_Witness ==
    /\ last.op = "stdin.line"
    /\ last.log = <<"Dialing", "Failed to dial address">>
    /\ pc = "loop"
    /\ limits["p1"].count > 0

(***************************************************************************)
(* C18  Loop termination.  The control loop ends when the local command    *)
(* source ends (stdin.next_line gives no further line) or when             *)
(* handle_event returns an error, and in no other case; once it has ended  *)
(* nothing more is handled; and a step of the loop that is neither of the  *)
(* two leaves the loop running.                                            *)
(***************************************************************************)
LoopEnded == pc \in {"exit_ok", "exit_err", "panic"}

CommandSourceEnded(op) == op.op \in {"stdin.eof", "stdin.err"}

EventHandlingFailed(op) ==
    /\ op.op \in {e.variant : e \in SwarmEvents(Senders, Payloads)}
    /\ op.ret # <<>>
    /\ op.ret[1] = "Err"

C18_LoopTermination ==
    [][/\ (pc = "loop" /\ pc' # "loop") =>
             (CommandSourceEnded(last') \/ EventHandlingFailed(last'))
       /\ (pc = "loop" /\ pc' = "loop" /\ clock' = clock) =>
             ~(CommandSourceEnded(last') \/ EventHandlingFailed(last'))
       /\ LoopEnded =>
             (pc' = pc /\ last' = last /\ limits' = limits /\ router' = router)]_vars

(***************************************************************************)
(* C19  The partial view never shrinks.  No step of the control loop takes *)
(* a peer out of the partial view; handling a connection-closed event,     *)
(* with or without a cause, leaves the view as it was; and the view        *)
(* changes only in handling a connection-established event.                *)
(***************************************************************************)
C19_PartialViewNeverShrinks ==
    [][/\ partialView \subseteq partialView'
       /\ last'.op = "ConnectionClosed" => partialView' = partialView
       /\ partialView' # partialView => last'.op = "ConnectionEstablished"]_vars

\* the connection of a peer of the partial view has been closed with a
\* cause, and the peer is in the view all the same
C19_Witness ==
    /\ last.op = "ConnectionClosed"
    /\ last.ret = <<"Err", "Network", "ConnectionClose">>
    /\ last.peer \in partialView
    /\ pc = "exit_err"

(***************************************************************************)
(* C20  Unexpected events are rejected without touching state.  Handling a *)
(* Floodsub or Gossipsub sub-event that is no inbound message returns the  *)
(* unexpected-event error of its mechanism, and handling a swarm event     *)
(* outside the handled set returns the unhandled-event error; in both      *)
(* cases check_rate_limit is not called and the rate-limit records and the *)
(* partial view are as they were.                                          *)
(***************************************************************************)
UnhandledSwarmEvents == {"ExpiredListenAddr", "OutgoingConnectionError"}

C20_UnexpectedEventsRejected ==
    [][LET v == last'.op
       IN  /\ v \in FloodsubOther =>
                last'.ret = <<"Err", "Event", "FloodsubEvent", "Unexpected Floodsub event">>
           /\ v \in GossipsubOther =>
                last'.ret = <<"Err", "Event", "GossipsubEvent", "Unexpected Gossipsub event">>
           /\ v \in UnhandledSwarmEvents =>
                last'.ret = <<"Err", "Event", "UnhandledSwarm">>
           /\ v \in FloodsubOther \cup GossipsubOther \cup UnhandledSwarmEvents =>
                /\ last'.checks = <<>>
                /\ last'.delivered = <<>>
                /\ limits' = limits
                /\ obs' = obs
                /\ partialView' = partialView]_vars

\* a Gossipsub sub-event that is no message has been rejected while a
\* rate-limit record and a partial view exist
C20_Witness ==
    /\ last.op = "Gossipsub.GossipsubNotSupported"
    /\ last.ret = <<"Err", "Event", "GossipsubEvent", "Unexpected Gossipsub event">>
    /\ limits["p1"].count > 0
    /\ partialView # {}

C22_SharedBudget ==
    [][LET event == EventOf(last')
           P == event.peer
       IN  Dispatched(event) =>
             /\ limits'[P] = update_entry(or_insert(limits, P, clock), clock)
             /\ \A q \in Peers \ {P} : limits'[q] = limits[q]
             /\ obs'[P].n = IF obs[P] = NoCall \/ window_elapsed(clock, obs[P].t0)
                            THEN 1 ELSE obs[P].n + 1
             /\ last'.delivered # <<>> =>
                   /\ obs'[P].n <= MAX_MESSAGES_PER_INTERVAL
                   /\ limits'[P].count = obs'[P].n
             /\ ( /\ SameContentBefore(event)
                  /\ last.peer = P
                  /\ ~window_elapsed(clock, limits[P].ws) )
                => ( /\ limits'[P].count = limits[P].count + 1
                     /\ limits'[P].count >= 2
                     /\ obs'[P].n = obs[P].n + 1 )]_vars

\* a mesh message of P has been rejected as the 101st message of the
\* window, right after a flood message of P with the same payload was
\* accepted as the 100th
C22_Witness ==
    /\ last.op = "Gossipsub.Message"
    /\ last.dup
    /\ last.checks = <<Check("p1", FALSE)>>
    /\ last.delivered = <<>>
    /\ limits["p1"].count = MAX_MESSAGES_PER_INTERVAL + 1
    /\ obs["p1"].n = MAX_MESSAGES_PER_INTERVAL + 1

(***************************************************************************)
(* C23  Bounded burst of the fixed window.  For calls of check_rate_limit  *)
(* for one peer at non-decreasing times, the calls that returned true      *)
(* within any span of RATE_LIMIT_INTERVAL (the span that ends at the       *)
(* current reading of the clock holds the most) number at most             *)
(* 2 * MAX_MESSAGES_PER_INTERVAL, and those since window_start was last    *)
(* set number at most MAX_MESSAGES_PER_INTERVAL.                           *)
(***************************************************************************)
AcceptedInSpan == SumOver(Prune(burst.at, clock), BurstTimes)

C23_BoundedBurst ==
    /\ AcceptedInSpan <= 2 * MAX_MESSAGES_PER_INTERVAL
    /\ burst.win <= MAX_MESSAGES_PER_INTERVAL

\* more than MAX_MESSAGES_PER_INTERVAL calls, of two windows, have returned
\* true within one span of RATE_LIMIT_INTERVAL: the burst at the window edge
C23_Witness ==
    /\ AcceptedInSpan = 2 * MAX_MESSAGES_PER_INTERVAL - 1
    /\ burst.win = MAX_MESSAGES_PER_INTERVAL
    /\ limits["p1"].ws = clock
    /\ clock = RATE_LIMIT_INTERVAL + 1

====
